---------------------------- MODULE Spec2Model ----------------------------
(***************************************************************************)
(* Model of the pairwise-distance edge reconstructor of the notebook       *)
(* Network_Analysis2.ipynb, function euclidean_distance_model(G, pos_dict, *)
(* n_edges), and of the networkx Graph operations it calls.                *)
(*                                                                         *)
(* One call is modelled statement by statement:                            *)
(*   "enumerate"  nodes = list(pos_dict.keys()); the loop over             *)
(*                combinations(nodes, 2) that fills distance_list          *)
(*   "sort"       distance_list.sort(key=...); ordered_pairs = [...]       *)
(*   "loop"       for i in range(n_edges): G.add_edge(ordered_pairs[i]...) *)
(*   "returned"   return G                                                 *)
(*   "raised"     the call ended in an exception (exception names it)      *)
(***************************************************************************)
EXTENDS Integers, Sequences, FiniteSets

\* Largest number of keys of pos_dict.
MaxNodes == 3

\* Resolution of the fixed-point square root: distances are held in units of
\* 1/Scale.
Scale == 1000

\* Sample rows of the position table: the points a node can lie at. Two nodes
\* may lie at the same point. Three distinct points have three different
\* pairwise distances (1, 2, sqrt 5).
Points == {<<0, 0>>, <<1, 0>>, <<0, 2>>}

VARIABLES
    pos_dict,       \* the mapping, as its entries <<key, <<x, y>>>> in iteration order
    n_edges,        \* the target edge count passed to the call
    G0,             \* the graph as it was when the call began
    G,              \* the graph the call mutates: [nodes: Seq, edges: set of {u, v}]
    nodes,          \* local: list(pos_dict.keys())
    distance_list,  \* local: list of <<distance, u, v>>
    ordered_pairs,  \* local: list of <<u, v>>
    i,              \* local: loop index of the insertion loop (0-based)
    inserted,       \* history: the <<u, v>> handed to add_edge, in order
    pc,             \* position of the call
    exception,      \* "None", or the exception the call ended in
    prev,           \* the finished first call, when the call was repeated
    G_orig,         \* the notebook's G: the network the reconstruction is compared with
    net_file,       \* load_network: the lines of the .net file
    f_pos,          \* load_network: the number of lines read from the file
    n_left,         \* load_network: vertex lines still to read
    L,              \* load_network: the graph being built
    lpc,            \* load_network: position of the loader
    scan_round,     \* load_network: parity of the rounds of the header scan so far
    descriptor,     \* what calculate_network_descriptors gave for the loaded graph
    networks,       \* the networks dict, as its entries <<name, network>> in order
    par_func,       \* Parallel: the name of the delayed function
    task_state,     \* Parallel: per task its status and the argument it was sent
    task_out,       \* Parallel: per task the value its worker returned
    completed,      \* Parallel: the task indexes in order of completion
    results,        \* Parallel: the list the call returns, as retrieved so far
    ppc,            \* Parallel: position of the cell
    top_nodes_per_network   \* the dict filled from zip(networks.keys(), centralities)

\* The variables of a call of euclidean_distance_model.
callVars == <<pos_dict, n_edges, G0, G, nodes, distance_list, ordered_pairs, i,
              inserted, pc, exception, prev>>

\* The variables of load_network.
loadVars == <<net_file, f_pos, n_left, L, lpc, scan_round, descriptor>>

\* The variables of the Parallel cells.
parVars == <<networks, par_func, task_state, task_out, completed, results, ppc,
             top_nodes_per_network>>

\* What a call of euclidean_distance_model does not touch.
outsideCall == <<G_orig, loadVars, parVars>>

vars == <<callVars, G_orig, loadVars, parVars>>

-----------------------------------------------------------------------------
\* Helpers over sequences and numbers.

Range(s) == {s[j] : j \in 1..Len(s)}

Abs(x) == IF x < 0 THEN -x ELSE x

\* The permutations of 1..n, as sequences.
Perms(n) == {p \in [1..n -> 1..n] : \A a, b \in 1..n : a # b => p[a] # p[b]}

\* N*(N-1)/2
PairCount(n) == (n * (n - 1)) \div 2

-----------------------------------------------------------------------------
\* math.sqrt on the non-negative integer n, in units of 1/Scale: the largest
\* r with r*r <= n*Scale*Scale, searched between lo and hi.
RECURSIVE ISqrtBetween(_, _, _)
ISqrtBetween(n, lo, hi) ==
    IF lo >= hi THEN lo
    ELSE LET mid == (lo + hi + 1) \div 2
         IN  IF mid * mid <= n THEN ISqrtBetween(n, mid, hi)
                               ELSE ISqrtBetween(n, lo, mid - 1)

\* pos_dict[u]
Lookup(d, u) == LET j == CHOOSE k \in 1..Len(d) : d[k][1] = u IN d[j][2]

\* list(pos_dict.keys())
Keys(d) == [j \in 1..Len(d) |-> d[j][1]]

\* Variant: the y term left out, math.sqrt((x2 - x1)**2).
DistanceXOnly(d, u, v) ==
    LET p1 == Lookup(d, u)
        p2 == Lookup(d, v)
        dx == p2[1] - p1[1]
    IN  ISqrtBetween((dx * dx) * Scale * Scale, 0, Scale * Abs(dx))

\* math.sqrt((x2 - x1)**2 + (y2 - y1)**2)
Distance(d, u, v) ==
    LET p1 == Lookup(d, u)
        p2 == Lookup(d, v)
        dx == p2[1] - p1[1]
        dy == p2[2] - p1[2]
    IN  ISqrtBetween((dx * dx + dy * dy) * Scale * Scale, 0,
                     Scale * (Abs(dx) + Abs(dy)))

\* itertools.combinations(s, 2): <<s[a], s[b]>> for a < b, in lexicographic
\* order of the index pair.
RECURSIVE PairsFrom(_, _, _)
PairsFrom(s, a, b) ==
    IF a >= Len(s) THEN <<>>
    ELSE IF b > Len(s) THEN PairsFrom(s, a + 1, a + 2)
    ELSE <<(<<s[a], s[b]>>)>> \o PairsFrom(s, a, b + 1)

\* Variant: itertools.combinations_with_replacement(s, 2), which also yields
\* <<s[a], s[a]>>.
RECURSIVE PairsWithReplacementFrom(_, _, _)
PairsWithReplacementFrom(s, a, b) ==
    IF a > Len(s) THEN <<>>
    ELSE IF b > Len(s) THEN PairsWithReplacementFrom(s, a + 1, a + 1)
    ELSE <<(<<s[a], s[b]>>)>> \o PairsWithReplacementFrom(s, a, b + 1)

combinations_with_replacement(s) == PairsWithReplacementFrom(s, 1, 1)

\* Variant: itertools.permutations(s, 2), which yields <<s[a], s[b]>> and
\* <<s[b], s[a]>>.
RECURSIVE OrderedPairsFrom(_, _, _)
OrderedPairsFrom(s, a, b) ==
    IF a > Len(s) THEN <<>>
    ELSE IF b > Len(s) THEN OrderedPairsFrom(s, a + 1, 1)
    ELSE (IF a = b THEN <<>> ELSE <<(<<s[a], s[b]>>)>>)
             \o OrderedPairsFrom(s, a, b + 1)

permutations(s) == OrderedPairsFrom(s, 1, 1)

\* Variant: zip(s, s[1:]), the pairs of neighbours in the list only.
adjacent_pairs(s) == [j \in 1..(IF Len(s) = 0 THEN 0 ELSE Len(s) - 1) |-> <<s[j], s[j + 1]>>]

combinations(s) == PairsFrom(s, 1, 2)

\* The loop that appends (distance, u, v) for every pair.
BuildDistanceList(d, prs) ==
    [j \in 1..Len(prs) |-> <<Distance(d, prs[j][1], prs[j][2]), prs[j][1], prs[j][2]>>]

\* Variant: the list sorted with reverse=True (descending by the key).
RECURSIVE InsertByKeyDescending(_, _)
InsertByKeyDescending(sorted, e) ==
    IF sorted = <<>> THEN <<e>>
    ELSE IF e[1] > sorted[Len(sorted)][1]
         THEN InsertByKeyDescending(SubSeq(sorted, 1, Len(sorted) - 1), e)
                  \o <<sorted[Len(sorted)]>>
         ELSE Append(sorted, e)

\* Variant: an ascending sort that places an element before the elements of
\* equal key (not stable).
RECURSIVE InsertByKeyBeforeEqual(_, _)
InsertByKeyBeforeEqual(sorted, e) ==
    IF sorted = <<>> THEN <<e>>
    ELSE IF e[1] <= sorted[Len(sorted)][1]
         THEN InsertByKeyBeforeEqual(SubSeq(sorted, 1, Len(sorted) - 1), e)
                  \o <<sorted[Len(sorted)]>>
         ELSE Append(sorted, e)

\* list.sort(key=lambda x: x[0]): a stable sort, ascending by the key. An
\* element is inserted after the elements whose key is not greater.
RECURSIVE InsertByKey(_, _)
InsertByKey(sorted, e) ==
    IF sorted = <<>> THEN <<e>>
    ELSE IF e[1] < sorted[Len(sorted)][1]
         THEN InsertByKey(SubSeq(sorted, 1, Len(sorted) - 1), e)
                  \o <<sorted[Len(sorted)]>>
         ELSE Append(sorted, e)

RECURSIVE SortFrom(_, _, _)
SortFrom(l, j, acc) ==
    IF j > Len(l) THEN acc ELSE SortFrom(l, j + 1, InsertByKey(acc, l[j]))

\* Variant: the sort left out (sorted(distance_list) with its result dropped).
SortSkipped(l) == l

SortByDistance(l) == SortFrom(l, 1, <<>>)

\* Every arrangement of l that is ascending by the key, whatever the order of
\* the elements with equal keys.
AscendingArrangements(l) ==
    {[j \in 1..Len(l) |-> l[q[j]]] :
        q \in {p \in Perms(Len(l)) :
                  \A a, b \in 1..Len(l) : a < b => l[p[a]][1] <= l[p[b]][1]}}

\* [(u, v) for (d, u, v) in distance_list]
ProjectPairs(l) == [j \in 1..Len(l) |-> <<l[j][2], l[j][3]>>]

\* networkx Graph.add_edge(u, v): both endpoints become nodes when they are
\* not, and the undirected edge {u, v} is in the graph afterwards.
AddNode(ns, u) == IF u \in Range(ns) THEN ns ELSE Append(ns, u)

\* Variant: the graph rebuilt from the one edge, nx.Graph([(u, v)]).
graph_from_edge(g, u, v) == [nodes |-> AddNode(<<u>>, v), edges |-> {{u, v}}]

add_edge(g, u, v) ==
    [nodes |-> AddNode(AddNode(g.nodes, u), v), edges |-> g.edges \cup {{u, v}}]

-----------------------------------------------------------------------------
\* The inputs of a call.

NoCall == [done |-> FALSE]

\* nx.Graph(): no node, no edge.
EmptyGraph == [nodes |-> <<>>, edges |-> {}]

\* No file is being loaded.
LoaderIdle ==
    /\ net_file = <<>>
    /\ f_pos = 0
    /\ n_left = 0
    /\ L = EmptyGraph
    /\ lpc = "idle"
    /\ scan_round = 0
    /\ descriptor = "None"

\* No Parallel call is under way.
ParallelIdle ==
    /\ networks = <<>>
    /\ par_func = "None"
    /\ task_state = <<>>
    /\ task_out = <<>>
    /\ completed = <<>>
    /\ results = <<>>
    /\ ppc = "idle"
    /\ top_nodes_per_network = <<>>

\* The mappings with keys 1..n, in every iteration order.
PosDicts ==
    UNION {{[j \in 1..n |-> <<order[j], xy[order[j]]>>] :
               order \in Perms(n), xy \in [1..n -> Points]} : n \in 0..MaxNodes}

\* The graphs a call starts from: no node at all, the keys as nodes and no
\* edge, and the keys as nodes with one edge.
InitGraphs(n) ==
    {[nodes |-> <<>>, edges |-> {}], [nodes |-> [j \in 1..n |-> j], edges |-> {}]}
        \cup (IF n >= 2 THEN {[nodes |-> [j \in 1..n |-> j], edges |-> {{1, 2}}]}
                        ELSE {})

\* The targets tried for a mapping of n keys: from negative to past the pairs.
Targets(n) == (-1)..(PairCount(n) + 1)

Init ==
    /\ pos_dict \in PosDicts
    /\ n_edges \in Targets(Len(pos_dict))
    /\ G0 \in InitGraphs(Len(pos_dict))
    /\ G = G0
    /\ nodes = <<>>
    /\ distance_list = <<>>
    /\ ordered_pairs = <<>>
    /\ i = 0
    /\ inserted = <<>>
    /\ pc = "enumerate"
    /\ exception = "None"
    /\ prev = NoCall
    /\ G_orig = EmptyGraph
    /\ LoaderIdle
    /\ ParallelIdle

-----------------------------------------------------------------------------
\* The steps of euclidean_distance_model.

\* nodes = list(pos_dict.keys()); pairs = combinations(nodes, 2); the loop
\* filling distance_list.
Enumerate ==
    /\ pc = "enumerate"
    /\ nodes' = Keys(pos_dict)
    /\ distance_list' = BuildDistanceList(pos_dict, combinations(Keys(pos_dict)))
    /\ pc' = "sort"
    /\ UNCHANGED <<pos_dict, n_edges, G0, G, ordered_pairs, i, inserted,
                   exception, prev>>
    /\ UNCHANGED outsideCall

\* Variant: a sort whose order among equal distances is not fixed.
SortPairsAnyTieOrder ==
    /\ pc = "sort"
    /\ \E s \in AscendingArrangements(distance_list) :
           /\ distance_list' = s
           /\ ordered_pairs' = ProjectPairs(s)
    /\ i' = 0
    /\ pc' = "loop"
    /\ UNCHANGED <<pos_dict, n_edges, G0, G, nodes, inserted, exception, prev>>
    /\ UNCHANGED outsideCall

\* distance_list.sort(key=lambda x: x[0]); ordered_pairs = [...]
SortPairs ==
    /\ pc = "sort"
    /\ distance_list' = SortByDistance(distance_list)
    /\ ordered_pairs' = ProjectPairs(SortByDistance(distance_list))
    /\ i' = 0
    /\ pc' = "loop"
    /\ UNCHANGED <<pos_dict, n_edges, G0, G, nodes, inserted, exception, prev>>
    /\ UNCHANGED outsideCall

\* Variant: the loop body with the constant subscript ordered_pairs[0].
AddEdgeFirstPairOnly ==
    /\ pc = "loop"
    /\ i < n_edges
    /\ i + 1 <= Len(ordered_pairs)
    /\ G' = add_edge(G, ordered_pairs[1][1], ordered_pairs[1][2])
    /\ inserted' = Append(inserted, ordered_pairs[1])
    /\ i' = i + 1
    /\ UNCHANGED <<pos_dict, n_edges, G0, nodes, distance_list, ordered_pairs,
                   pc, exception, prev>>
    /\ UNCHANGED outsideCall

\* One iteration of "for i in range(n_edges)" whose index is in the list.
AddEdge ==
    /\ pc = "loop"
    /\ i < n_edges
    /\ i + 1 <= Len(ordered_pairs)
    /\ G' = add_edge(G, ordered_pairs[i + 1][1], ordered_pairs[i + 1][2])
    /\ inserted' = Append(inserted, ordered_pairs[i + 1])
    /\ i' = i + 1
    /\ UNCHANGED <<pos_dict, n_edges, G0, nodes, distance_list, ordered_pairs,
                   pc, exception, prev>>
    /\ UNCHANGED outsideCall

\* Variant: the loop over the slice ordered_pairs[:n_edges], which stops at
\* the end of the list and returns.
SaturateAtListEnd ==
    /\ pc = "loop"
    /\ i < n_edges
    /\ i + 1 > Len(ordered_pairs)
    /\ pc' = "returned"
    /\ UNCHANGED <<pos_dict, n_edges, G0, G, nodes, distance_list,
                   ordered_pairs, i, inserted, exception, prev>>
    /\ UNCHANGED outsideCall

\* An iteration whose index is past the end of ordered_pairs: the subscript
\* ordered_pairs[i] raises IndexError and the call ends.
RaiseIndexError ==
    /\ pc = "loop"
    /\ i < n_edges
    /\ i + 1 > Len(ordered_pairs)
    /\ pc' = "raised"
    /\ exception' = "IndexError"
    /\ UNCHANGED <<pos_dict, n_edges, G0, G, nodes, distance_list,
                   ordered_pairs, i, inserted, prev>>
    /\ UNCHANGED outsideCall

\* range(n_edges) is exhausted (at once when n_edges <= 0): return G.
Return ==
    /\ pc = "loop"
    /\ i >= n_edges
    /\ pc' = "returned"
    /\ UNCHANGED <<pos_dict, n_edges, G0, G, nodes, distance_list,
                   ordered_pairs, i, inserted, exception, prev>>
    /\ UNCHANGED outsideCall

Terminal == pc \in {"returned", "raised"}

Next == Enumerate \/ SortPairs \/ AddEdge \/ RaiseIndexError \/ Return

Spec == Init /\ [][Next]_vars

-----------------------------------------------------------------------------
\* A second call of euclidean_distance_model, made after the first has ended,
\* with the same pos_dict, a fresh copy of the same starting graph, and a
\* target t that is the first call's or larger. The first call's target,
\* insertions, graph and outcome are kept in prev.
CallAgain(t) ==
    /\ Terminal
    /\ prev = NoCall
    /\ t >= n_edges
    /\ prev' = [done |-> TRUE, n_edges |-> n_edges, inserted |-> inserted,
                G |-> G, pc |-> pc, exception |-> exception]
    /\ n_edges' = t
    /\ G' = G0
    /\ nodes' = <<>>
    /\ distance_list' = <<>>
    /\ ordered_pairs' = <<>>
    /\ i' = 0
    /\ inserted' = <<>>
    /\ pc' = "enumerate"
    /\ exception' = "None"
    /\ UNCHANGED <<pos_dict, G0>>
    /\ UNCHANGED outsideCall

NextTwice == Next \/ \E t \in Targets(Len(pos_dict)) : CallAgain(t)

SpecTwice == Init /\ [][NextTwice]_vars

-----------------------------------------------------------------------------
\* A second call of euclidean_distance_model on the same coordinates with the
\* keys of the mapping in another iteration order: same target, a fresh copy
\* of the same starting graph. The first call's mapping, insertions, graph
\* and outcome are kept in prev.

\* The mapping d with its entries in the order p.
Reordered(d, p) == [j \in 1..Len(d) |-> d[p[j]]]

CallReordered(p) ==
    /\ Terminal
    /\ prev = NoCall
    /\ prev' = [done |-> TRUE, pos_dict |-> pos_dict, n_edges |-> n_edges,
                inserted |-> inserted, G |-> G, pc |-> pc,
                exception |-> exception]
    /\ pos_dict' = Reordered(pos_dict, p)
    /\ G' = G0
    /\ nodes' = <<>>
    /\ distance_list' = <<>>
    /\ ordered_pairs' = <<>>
    /\ i' = 0
    /\ inserted' = <<>>
    /\ pc' = "enumerate"
    /\ exception' = "None"
    /\ UNCHANGED <<n_edges, G0>>
    /\ UNCHANGED outsideCall

\* The mappings with keys 1..n in ascending order.
AscendingPosDicts ==
    UNION {{[j \in 1..n |-> <<j, xy[j]>>] : xy \in [1..n -> Points]} :
           n \in 0..MaxNodes}

\* The first call has the keys in ascending order and starts from the keys
\* as nodes and no edge.
InitReordered ==
    /\ pos_dict \in AscendingPosDicts
    /\ n_edges \in Targets(Len(pos_dict))
    /\ G0 = [nodes |-> [j \in 1..Len(pos_dict) |-> j], edges |-> {}]
    /\ G = G0
    /\ nodes = <<>>
    /\ distance_list = <<>>
    /\ ordered_pairs = <<>>
    /\ i = 0
    /\ inserted = <<>>
    /\ pc = "enumerate"
    /\ exception = "None"
    /\ prev = NoCall
    /\ G_orig = EmptyGraph
    /\ LoaderIdle
    /\ ParallelIdle

NextReordered == Next \/ \E p \in Perms(Len(pos_dict)) : CallReordered(p)

SpecReordered == InitReordered /\ [][NextReordered]_vars

-----------------------------------------------------------------------------
\* The end-to-end scenario: four nodes, node k at ScenarioPoints[k], the
\* mapping in every iteration order.

ScenarioPoints == <<(<<0, 0>>), (<<1, 0>>), (<<0, 1>>), (<<10, 10>>)>>

ScenarioPosDicts ==
    {[j \in 1..Len(ScenarioPoints) |-> <<order[j], ScenarioPoints[order[j]]>>] :
        order \in Perms(Len(ScenarioPoints))}

InitScenario ==
    /\ pos_dict \in ScenarioPosDicts
    /\ n_edges \in Targets(Len(pos_dict))
    /\ G0 \in InitGraphs(Len(pos_dict))
    /\ G = G0
    /\ nodes = <<>>
    /\ distance_list = <<>>
    /\ ordered_pairs = <<>>
    /\ i = 0
    /\ inserted = <<>>
    /\ pc = "enumerate"
    /\ exception = "None"
    /\ prev = NoCall
    /\ G_orig = EmptyGraph
    /\ LoaderIdle
    /\ ParallelIdle

SpecScenario == InitScenario /\ [][Next]_vars

-----------------------------------------------------------------------------
\* The reference workflow of the notebook: G is the loaded network, G_testing
\* is its copy with the edges cleared, the target is G's edge count, and the
\* reconstruction is compared with G by set(G.edges()) == set(G_testing.edges()).

\* Variant: G_testing = nx.Graph(), a new graph without the nodes of G.
fresh_graph(g) == EmptyGraph

\* G.copy(): the same nodes in the same order, the same edges.
copy(g) == [nodes |-> g.nodes, edges |-> g.edges]

\* G.clear_edges(): the nodes stay.
clear_edges(g) == [nodes |-> g.nodes, edges |-> {}]

\* Variant: G.number_of_nodes().
number_of_nodes(g) == Len(g.nodes)

\* G.number_of_edges(): a self-loop counts as one edge.
number_of_edges(g) == Cardinality(g.edges)

\* The place of node u in the node order of a graph.
NodeIndex(ns, u) == CHOOSE k \in 1..Len(ns) : ns[k] = u

\* G.edges(): the nodes are visited in node order and an edge is reported
\* from the endpoint visited first, as (n, nbr); a self-loop as (n, n).
EdgesView(g) ==
    {uv \in Range(g.nodes) \X Range(g.nodes) :
        /\ {uv[1], uv[2]} \in g.edges
        /\ NodeIndex(g.nodes, uv[1]) <= NodeIndex(g.nodes, uv[2])}

\* set(G.edges()) == set(G_testing.edges())
EdgeSetsEqual(g1, g2) == EdgesView(g1) = EdgesView(g2)

\* The networks G of the workflow: nodes 1..m in order, any edges between
\* them, and possibly a self-loop at node 1.
WorkflowGraphs ==
    UNION {{[nodes |-> [j \in 1..m |-> j], edges |-> es] :
               es \in SUBSET ({{a, b} : a, b \in 1..m} \ {{a} : a \in 2..m})} :
           m \in 0..MaxNodes}

\* The position tables of the workflow: keys 1..n with the rows in ascending
\* or in descending order of the key.
WorkflowPosDicts ==
    UNION {{[j \in 1..n |-> <<order[j], xy[order[j]]>>] :
               order \in {[j \in 1..n |-> j], [j \in 1..n |-> n + 1 - j]},
               xy \in [1..n -> Points]} : n \in 0..MaxNodes}

InitWorkflow ==
    /\ G_orig \in WorkflowGraphs
    /\ pos_dict \in WorkflowPosDicts
    /\ n_edges = number_of_edges(G_orig)
    /\ G0 = clear_edges(copy(G_orig))
    /\ G = G0
    /\ nodes = <<>>
    /\ distance_list = <<>>
    /\ ordered_pairs = <<>>
    /\ i = 0
    /\ inserted = <<>>
    /\ pc = "enumerate"
    /\ exception = "None"
    /\ prev = NoCall
    /\ LoaderIdle
    /\ ParallelIdle

SpecWorkflow == InitWorkflow /\ [][Next]_vars

-----------------------------------------------------------------------------
\* load_network: the Pajek file, the two loaders, and their results.

\* The largest vertex count a file declares.
MaxFileNodes == 2

\* The largest number of edge lines of a file.
MaxEdgeLines == 2

\* A Python str built from the digits of j, and the int j.
PyStr(j) == [type |-> "str", val |-> j]

PyInt(j) == [type |-> "int", val |-> j]

\* One line of a file: its first token (or the kind of a data line) and its
\* numeric tokens.
Line(kind, a, b) == [kind |-> kind, a |-> a, b |-> b]

\* The edge lines of a file over the vertex ids 1..n: any pairs, in either
\* orientation, repeated or with both ends equal.
EdgeLineSeqs(n) ==
    UNION {[1..k -> (1..n) \X (1..n)] : k \in 0..MaxEdgeLines}

\* header h with count n, the n vertex lines 'j "j"', '*edges', the edge
\* lines.
FileOf(h, n, es) ==
    <<Line(h, n, 0)>>
        \o [j \in 1..n |-> Line("vertex", j, 0)]
        \o <<Line("*edges", 0, 0)>>
        \o [j \in 1..Len(es) |-> Line("edge", es[j][1], es[j][2])]

\* The files: the empty file, and the files with a lowercase or a capitalised
\* vertices header.
PajekFiles ==
    {<<>>} \cup
    UNION {{FileOf(h, n, es) : es \in EdgeLineSeqs(n)} :
           h \in {"*vertices", "*Vertices"}, n \in 0..MaxFileNodes}

\* nx.MultiGraph: the nodes in insertion order, the undirected edges, and for
\* every edge the number of its parallel copies.
EmptyMultiGraph == [nodes |-> <<>>, edges |-> {}, copies |-> <<>>]

\* MultiGraph.add_edge(u, v): one more copy of the edge, whatever is there.
multi_add_edge(g, u, v) ==
    [nodes |-> AddNode(AddNode(g.nodes, u), v),
     edges |-> g.edges \cup {{u, v}},
     copies |-> [e \in g.edges \cup {{u, v}} |->
                    IF e = {u, v}
                    THEN (IF e \in g.edges THEN g.copies[e] + 1 ELSE 1)
                    ELSE g.copies[e]]]

\* The edge section of read_pajek from line k on: a line of at least two
\* tokens is an edge between the labels of its two ids.
RECURSIVE ParseEdgeLines(_, _, _)
ParseEdgeLines(lines, k, g) ==
    IF k > Len(lines) THEN g
    ELSE IF lines[k].kind = "edge"
         THEN ParseEdgeLines(lines, k + 1,
                  multi_add_edge(g, PyStr(lines[k].a), PyStr(lines[k].b)))
         ELSE ParseEdgeLines(lines, k + 1, g)

\* The vertex section of read_pajek: n lines from line k on, each adding the
\* node of its label.
RECURSIVE ParseVertexLines(_, _, _, _)
ParseVertexLines(lines, k, n, g) ==
    IF n = 0 THEN g
    ELSE ParseVertexLines(lines, k + 1, n - 1,
             [g EXCEPT !.nodes = AddNode(@, PyStr(lines[k].a))])

\* read_pajek from line k on: section headers are matched in any case.
RECURSIVE ParseTop(_, _, _)
ParseTop(lines, k, g) ==
    IF k > Len(lines) THEN g
    ELSE IF lines[k].kind \in {"*vertices", "*Vertices"}
         THEN ParseTop(lines, k + 1 + lines[k].a,
                  ParseVertexLines(lines, k + 1, lines[k].a, g))
         ELSE IF lines[k].kind = "*edges"
              THEN ParseEdgeLines(lines, k + 1, g)
              ELSE ParseTop(lines, k + 1, g)

read_pajek(lines) == ParseTop(lines, 1, EmptyMultiGraph)

\* Variant: the multigraph kept as it is, parallel copies included.
keep_multigraph(g) == g

\* nx.Graph(G) of a multigraph: the same nodes, every edge once; an edge
\* with both ends equal stays.
Graph(g) == [nodes |-> g.nodes, edges |-> g.edges]

\* nx.convert_node_labels_to_integers(G): the node at position k of the node
\* order becomes the int k - 1.
\* The edge e of g with its endpoints relabelled.
RelabelEdge(g, e) == {PyInt(NodeIndex(g.nodes, u) - 1) : u \in e}

convert_node_labels_to_integers(g) ==
    LET h == [nodes |-> [k \in 1..Len(g.nodes) |-> PyInt(k - 1)],
              edges |-> {RelabelEdge(g, e) : e \in g.edges}]
    IN  IF "copies" \in DOMAIN g
        THEN [nodes |-> h.nodes,
              edges |-> h.edges,
              copies |-> [e2 \in h.edges |->
                             g.copies[CHOOSE e \in g.edges : RelabelEdge(g, e) = e2]]]
        ELSE h

\* No call of euclidean_distance_model is under way.
CallIdle ==
    /\ pos_dict = <<>>
    /\ n_edges = 0
    /\ G0 = EmptyGraph
    /\ G = EmptyGraph
    /\ nodes = <<>>
    /\ distance_list = <<>>
    /\ ordered_pairs = <<>>
    /\ i = 0
    /\ inserted = <<>>
    /\ pc = "idle"
    /\ exception = "None"
    /\ prev = NoCall
    /\ G_orig = EmptyGraph

\* A call of load_network on one of the files, by the loader of the notebook
\* (first step read_pajek) or by the hand-written one (first step the header
\* scan).
InitLoad ==
    /\ CallIdle
    /\ ParallelIdle
    /\ net_file \in PajekFiles
    /\ f_pos = 0
    /\ n_left = 0
    /\ L = EmptyGraph
    /\ lpc \in {"read_pajek", "header"}
    /\ scan_round = 0
    /\ descriptor = "None"

notLoadVars == <<callVars, G_orig, parVars>>

\* G = nx.read_pajek(f'data/{name}.net')
ReadPajek ==
    /\ lpc = "read_pajek"
    /\ L' = read_pajek(net_file)
    /\ f_pos' = Len(net_file)
    /\ lpc' = "to_graph"
    /\ UNCHANGED <<net_file, n_left, scan_round,
                   descriptor, notLoadVars>>

\* G = nx.Graph(G)
ToGraph ==
    /\ lpc = "to_graph"
    /\ L' = Graph(L)
    /\ lpc' = "relabel"
    /\ UNCHANGED <<net_file, f_pos, n_left, scan_round,
                   descriptor, notLoadVars>>

\* G = nx.convert_node_labels_to_integers(G); return G
ConvertLabels ==
    /\ lpc = "relabel"
    /\ L' = convert_node_labels_to_integers(L)
    /\ lpc' = "returned"
    /\ UNCHANGED <<net_file, f_pos, n_left, scan_round,
                   descriptor, notLoadVars>>

\* One round of 'while True' with a line left: the line is read, and a line
\* starting with lowercase '*vertices' ends the scan with its count.
ReadHeaderLine ==
    /\ lpc = "header"
    /\ f_pos < Len(net_file)
    /\ f_pos' = f_pos + 1
    /\ IF net_file[f_pos + 1].kind = "*vertices"
       THEN /\ n_left' = net_file[f_pos + 1].a
            /\ lpc' = "vertex_lines"
       ELSE UNCHANGED <<n_left, lpc>>
    /\ scan_round' = 1 - scan_round
    /\ UNCHANGED <<net_file, L, descriptor, notLoadVars>>

\* One round of 'while True' at end of file: readline() returns '', which
\* does not start with '*vertices', and the loop goes round again with
\* nothing but the round count changed.
ReadHeaderAtEndOfFile ==
    /\ lpc = "header"
    /\ f_pos = Len(net_file)
    /\ scan_round' = 1 - scan_round
    /\ UNCHANGED <<net_file, f_pos, n_left, L, lpc, descriptor, notLoadVars>>

\* One round of 'for _ in range(n_nodes)': the node of the line's first
\* token is added.
ReadVertexLine ==
    /\ lpc = "vertex_lines"
    /\ n_left > 0
    /\ f_pos < Len(net_file)
    /\ net_file[f_pos + 1].kind = "vertex"
    /\ L' = [L EXCEPT !.nodes = AddNode(@, PyInt(net_file[f_pos + 1].a))]
    /\ n_left' = n_left - 1
    /\ f_pos' = f_pos + 1
    /\ UNCHANGED <<net_file, lpc, scan_round,
                   descriptor, notLoadVars>>

\* The vertex loop is exhausted: break.
EndVertexLines ==
    /\ lpc = "vertex_lines"
    /\ n_left = 0
    /\ lpc' = "edge_lines"
    /\ UNCHANGED <<net_file, f_pos, n_left, L, scan_round,
                   descriptor, notLoadVars>>

\* One round of 'for line in f': the '*edges' line is skipped, a line of two
\* numbers is handed to G.add_edge.
ReadEdgeLine ==
    /\ lpc = "edge_lines"
    /\ f_pos < Len(net_file)
    /\ f_pos' = f_pos + 1
    /\ L' = IF net_file[f_pos + 1].kind = "edge"
            THEN add_edge(L, PyInt(net_file[f_pos + 1].a),
                             PyInt(net_file[f_pos + 1].b))
            ELSE L
    /\ UNCHANGED <<net_file, n_left, lpc, scan_round,
                   descriptor, notLoadVars>>

\* The file is exhausted: return G.
ReturnLoaded ==
    /\ lpc = "edge_lines"
    /\ f_pos = Len(net_file)
    /\ lpc' = "returned"
    /\ UNCHANGED <<net_file, f_pos, n_left, L, scan_round,
                   descriptor, notLoadVars>>

NextLoad ==
    \/ ReadPajek
    \/ ToGraph
    \/ ConvertLabels
    \/ ReadHeaderLine
    \/ ReadHeaderAtEndOfFile
    \/ ReadVertexLine
    \/ EndVertexLines
    \/ ReadEdgeLine
    \/ ReturnLoaded

SpecLoad == InitLoad /\ [][NextLoad]_vars

\* The loader keeps running: a step is taken when one is possible.
FairSpecLoad == SpecLoad /\ WF_vars(NextLoad)

-----------------------------------------------------------------------------
\* The Parallel cells: descriptors and centralities of every network, and
\* the dict of top nodes built from zip(networks.keys(), centralities).

\* The largest number of networks in the dict.
MaxNetworks == 3

NETWORK_NAMES == <<"net1", "net2", "net3", "net4">>

\* top_n of get_top_central_nodes(centrality_dict, 5)
TopN == 5

\* load_network(name), all of it: read_pajek, nx.Graph, relabelling.
load_network(file) == convert_node_labels_to_integers(Graph(read_pajek(file)))

\* The files behind the names: an edge, an edge twice and a self-loop, a
\* path on three nodes.
NetworkFiles ==
    {FileOf("*Vertices", 2, <<<<1, 2>>>>),
     FileOf("*Vertices", 2, <<<<1, 2>>, <<2, 1>>, <<2, 2>>>>),
     FileOf("*Vertices", 3, <<<<2, 1>>, <<3, 2>>>>)}

\* networks[net_name] = load_network(net_name) for the first n names.
NetworkDicts ==
    UNION {{[k \in 1..n |-> <<NETWORK_NAMES[k], load_network(files[k])>>] :
               files \in [1..n -> NetworkFiles]} : n \in 1..MaxNetworks}

\* G.degree() of one node: a self-loop counts twice.
degree(g, u) ==
    Cardinality({e \in g.edges : u \in e}) + (IF {u} \in g.edges THEN 1 ELSE 0)

\* G.number_of_edges(u, v): 0 without the edge; with it, 1 in an nx.Graph
\* and the number of parallel copies in a multigraph.
number_of_edges_between(g, u, v) ==
    IF {u, v} \notin g.edges THEN 0
    ELSE IF "copies" \in DOMAIN g THEN g.copies[{u, v}] ELSE 1

SeqMin(s) == CHOOSE x \in Range(s) : \A y \in Range(s) : x <= y

SeqMax(s) == CHOOSE x \in Range(s) : \A y \in Range(s) : x >= y

\* calculate_network_descriptors(G), its integer entries.
calculate_network_descriptors(g) ==
    LET degrees == [k \in 1..Len(g.nodes) |-> degree(g, g.nodes[k])]
    IN  [nodes |-> Len(g.nodes),
         edges |-> number_of_edges(g),
         self_loops |-> Cardinality({e \in g.edges : Cardinality(e) = 1}),
         multi_edges |->
             Cardinality({uv \in EdgesView(g) :
                             number_of_edges_between(g, uv[1], uv[2]) > 1}),
         degree_min |-> SeqMin(degrees),
         degree_max |-> SeqMax(degrees)]

\* calculate_centralities(G), its integer entry: 'degree': dict(G.degree()),
\* the items <<node, degree>> in node order.
calculate_centralities(g) ==
    [degree |-> [k \in 1..Len(g.nodes) |-> <<g.nodes[k], degree(g, g.nodes[k])>>]]

\* sorted(values.items(), key=lambda x: x[1], reverse=True): descending by
\* the value, items of equal value in their first order.
RECURSIVE InsertByValueDescending(_, _)
InsertByValueDescending(sorted, e) ==
    IF sorted = <<>> THEN <<e>>
    ELSE IF e[2] > sorted[Len(sorted)][2]
         THEN InsertByValueDescending(SubSeq(sorted, 1, Len(sorted) - 1), e)
                  \o <<sorted[Len(sorted)]>>
         ELSE Append(sorted, e)

RECURSIVE SortItemsFrom(_, _, _)
SortItemsFrom(l, j, acc) ==
    IF j > Len(l) THEN acc
    ELSE SortItemsFrom(l, j + 1, InsertByValueDescending(acc, l[j]))

\* get_top_central_nodes(centrality_dict, 5): per metric the first top_n
\* nodes of the sorted items.
get_top_central_nodes(centrality_dict) ==
    LET sorted_nodes == SortItemsFrom(centrality_dict.degree, 1, <<>>)
        n == IF Len(sorted_nodes) < TopN THEN Len(sorted_nodes) ELSE TopN
    IN  [degree |-> [k \in 1..n |-> sorted_nodes[k][1]]]

\* The delayed function applied to its argument.
Apply(f, g) ==
    IF f = "calculate_network_descriptors"
    THEN calculate_network_descriptors(g)
    ELSE calculate_centralities(g)

\* zip(a, b): pairs up to the shorter length.
Zip(a, b) ==
    [k \in 1..(IF Len(a) < Len(b) THEN Len(a) ELSE Len(b)) |-> <<a[k], b[k]>>]

\* networks.keys()
NetworkKeys == [k \in 1..Len(networks) |-> networks[k][1]]

\* One of the two Parallel cells is entered with the dict loaded.
InitParallel ==
    /\ CallIdle
    /\ LoaderIdle
    /\ networks \in NetworkDicts
    /\ par_func \in {"calculate_network_descriptors", "calculate_centralities"}
    /\ task_state = [k \in 1..Len(networks) |-> [status |-> "pending"]]
    /\ task_out = [k \in 1..Len(networks) |-> "None"]
    /\ completed = <<>>
    /\ results = <<>>
    /\ ppc = "running"
    /\ top_nodes_per_network = <<>>

notParVars == <<callVars, G_orig, loadVars>>

\* The next task of the generator is sent to a worker process, with a
\* pickled copy of its network.
Dispatch ==
    /\ ppc = "running"
    /\ \E k \in 1..Len(networks) :
          /\ task_state[k].status = "pending"
          /\ \A j \in 1..(k - 1) : task_state[j].status /= "pending"
          /\ task_state' = [task_state EXCEPT
                               ![k] = [status |-> "running",
                                       arg |-> copy(networks[k][2])]]
    /\ UNCHANGED <<networks, par_func, task_out, completed, results, ppc,
                   top_nodes_per_network, notParVars>>

\* A worker finishes its task, whichever: the function's value on the copy
\* the task was sent.
Complete ==
    /\ ppc = "running"
    /\ \E k \in 1..Len(networks) :
          /\ task_state[k].status = "running"
          /\ task_state' = [task_state EXCEPT ![k].status = "done"]
          /\ task_out' = [task_out EXCEPT ![k] = Apply(par_func, task_state[k].arg)]
          /\ completed' = Append(completed, k)
    /\ UNCHANGED <<networks, par_func, results, ppc, top_nodes_per_network,
                   notParVars>>

\* Variant: the outputs taken in the order the tasks finished.
RetrieveAsCompleted ==
    /\ ppc = "running"
    /\ Len(results) < Len(completed)
    /\ results' = Append(results, task_out[completed[Len(results) + 1]])
    /\ UNCHANGED <<networks, par_func, task_state, task_out, completed, ppc,
                   top_nodes_per_network, notParVars>>

\* Parallel._retrieve: the output of the first job not yet retrieved is
\* taken once that job is done; until then the call waits.
Retrieve ==
    /\ ppc = "running"
    /\ Len(results) < Len(networks)
    /\ task_state[Len(results) + 1].status = "done"
    /\ results' = Append(results, task_out[Len(results) + 1])
    /\ UNCHANGED <<networks, par_func, task_state, task_out, completed, ppc,
                   top_nodes_per_network, notParVars>>

\* list(output) is complete: the cell assigns descriptors or centralities.
ReturnParallel ==
    /\ ppc = "running"
    /\ Len(results) = Len(networks)
    /\ ppc' = "returned"
    /\ UNCHANGED <<networks, par_func, task_state, task_out, completed, results,
                   top_nodes_per_network, notParVars>>

\* for net_name, centrality_dict in zip(networks.keys(), centralities):
\*     top_nodes_per_network[net_name] = get_top_central_nodes(centrality_dict, 5)
ZipTopNodes ==
    /\ ppc = "returned"
    /\ par_func = "calculate_centralities"
    /\ top_nodes_per_network' =
           LET z == Zip(NetworkKeys, results)
           IN  [k \in 1..Len(z) |-> <<z[k][1], get_top_central_nodes(z[k][2])>>]
    /\ ppc' = "zipped"
    /\ UNCHANGED <<networks, par_func, task_state, task_out, completed, results,
                   notParVars>>

NextParallel ==
    \/ Dispatch
    \/ Complete
    \/ Retrieve
    \/ ReturnParallel
    \/ ZipTopNodes

SpecParallel == InitParallel /\ [][NextParallel]_vars

-----------------------------------------------------------------------------
\* calculate_network_descriptors on the graph load_network returned.

\* The graph has a node: the dict is returned.
Describe ==
    /\ lpc = "returned"
    /\ L.nodes /= <<>>
    /\ descriptor' = calculate_network_descriptors(L)
    /\ lpc' = "described"
    /\ UNCHANGED <<net_file, f_pos, n_left, L, scan_round, notLoadVars>>

\* The graph has no node: max() of no connected component raises ValueError.
DescribeEmptyGraph ==
    /\ lpc = "returned"
    /\ L.nodes = <<>>
    /\ descriptor' = [exception |-> "ValueError"]
    /\ lpc' = "described"
    /\ UNCHANGED <<net_file, f_pos, n_left, L, scan_round, notLoadVars>>

NextDescribe == NextLoad \/ Describe \/ DescribeEmptyGraph

SpecDescribe == InitLoad /\ [][NextDescribe]_vars

-----------------------------------------------------------------------------
\* Definitions the properties are stated with.

Min(a, b) == IF a < b THEN a ELSE b

Max(a, b) == IF a > b THEN a ELSE b

\* The number of unordered pairs of distinct keys of the mapping.
NPairs == PairCount(Len(pos_dict))

\* The undirected edges a sequence of add_edge arguments stands for.
Produced(ins) == {{ins[j][1], ins[j][2]} : j \in 1..Len(ins)}

\* The distance of the j-th inserted pair.
InsertedDistance(ins, j) == Distance(pos_dict, ins[j][1], ins[j][2])

\* The unordered pairs of distinct keys, as <<u, v>> with u before v.
KeyPairs ==
    {<<pos_dict[ab[1]][1], pos_dict[ab[2]][1]>> :
        ab \in {x \in (1..Len(pos_dict)) \X (1..Len(pos_dict)) : x[1] < x[2]}}

\* The squared Euclidean distance of the points of u and v, from the table.
SqDist(u, v) ==
    LET p1 == Lookup(pos_dict, u)
        p2 == Lookup(pos_dict, v)
    IN  (p2[1] - p1[1]) * (p2[1] - p1[1]) + (p2[2] - p1[2]) * (p2[2] - p1[2])

\* The place of key u in the iteration order of the mapping.
KeyIndex(u) == CHOOSE k \in 1..Len(pos_dict) : pos_dict[k][1] = u

\* <<u1, v1>> comes before <<u2, v2>> in the enumeration of the pairs: by the
\* place of the first key, then by the place of the second.
EnumeratedBefore(u1, v1, u2, v2) ==
    \/ KeyIndex(u1) < KeyIndex(u2)
    \/ KeyIndex(u1) = KeyIndex(u2) /\ KeyIndex(v1) < KeyIndex(v2)

\* The keys of the mapping, as a set.
KeySet == {pos_dict[k][1] : k \in 1..Len(pos_dict)}

-----------------------------------------------------------------------------
C2_RaisesInvalidTarget ==
    (Terminal /\ n_edges > NPairs) =>
        (pc = "raised" /\ exception = "InvalidTarget" /\ G = G0)

\* C3 as stated: when a call ends in an error, the supplied graph has exactly
\* the edges it had before the call.
C3_ErrorLeavesGraphUntouched ==
    pc = "raised" => G.edges = G0.edges

\* C4 as stated: a call with a negative target ends in an InvalidTarget
\* error; it does not return normally.
C4_NegativeTargetRaises ==
    (Terminal /\ n_edges < 0) => (pc = "raised" /\ exception = "InvalidTarget")

\* C5 as stated: a call with fewer than 2 keys in the mapping ends in an
\* InvalidInput error, for every target including 0.
C5_FewNodesRaiseInvalidInput ==
    (Terminal /\ Len(pos_dict) < 2) =>
        (pc = "raised" /\ exception = "InvalidInput")

C7_Monotonicity ==
    (Terminal /\ prev.done /\ 0 <= prev.n_edges /\ n_edges <= NPairs) =>
        /\ Produced(prev.inserted) \subseteq Produced(inserted)
        /\ prev.G.edges \subseteq G.edges
        /\ \A a \in 1..Len(inserted) :
              {inserted[a][1], inserted[a][2]} \notin Produced(prev.inserted) =>
                  \A b \in 1..Len(prev.inserted) :
                      InsertedDistance(inserted, a)
                          >= InsertedDistance(prev.inserted, b)

\* C7 witness: the second call, with a larger target, has returned with
\* edges the first did not produce, the first having produced some.
C7_Witness ==
    /\ pc = "returned"
    /\ prev.done
    /\ prev.n_edges >= 1
    /\ n_edges > prev.n_edges
    /\ n_edges <= NPairs
    /\ Produced(inserted) # Produced(prev.inserted)

\* C8: with target 1 and at least 2 keys, exactly one edge is produced, and
\* no pair of distinct keys is closer than its endpoints.
C8_ClosestPair ==
    (pc = "returned" /\ n_edges = 1 /\ Len(pos_dict) >= 2) =>
        /\ Len(inserted) = 1
        /\ G.edges = G0.edges \cup Produced(inserted)
        /\ \A p \in KeyPairs :
              InsertedDistance(inserted, 1) <= Distance(pos_dict, p[1], p[2])

\* C8 witness: a call with target 1 has returned and the edge is not the
\* first enumerated pair, which is strictly longer.
C8_Witness ==
    /\ pc = "returned"
    /\ n_edges = 1
    /\ Len(pos_dict) = 3
    /\ Len(inserted) = 1
    /\ InsertedDistance(inserted, 1) < Distance(pos_dict, nodes[1], nodes[2])

\* C9: no edge handed to add_edge joins a node to itself, and no self-loop
\* is among the edges the call added to the graph.
C9_NoSelfLoop ==
    /\ \A j \in 1..Len(inserted) : inserted[j][1] # inserted[j][2]
    /\ \A e \in G.edges \ G0.edges : Cardinality(e) = 2

\* C9 witness: a call has returned after inserting every pair of three keys.
C9_Witness ==
    /\ pc = "returned"
    /\ Len(pos_dict) = 3
    /\ Len(inserted) = 3

\* C10: no unordered pair is inserted twice, in either orientation: the
\* inserted pairs stand for as many edges as there are insertions.
C10_NoDuplicateInsertion ==
    /\ \A a, b \in 1..Len(inserted) :
          a # b => {inserted[a][1], inserted[a][2]} # {inserted[b][1], inserted[b][2]}
    /\ Cardinality(Produced(inserted)) = Len(inserted)

\* C10 witness: a call has inserted two pairs of equal distance that share a
\* node.
C10_Witness ==
    /\ Terminal
    /\ Len(inserted) >= 2
    /\ InsertedDistance(inserted, 1) = InsertedDistance(inserted, 2)
    /\ {inserted[1][1], inserted[1][2]} \cap {inserted[2][1], inserted[2][2]} # {}

\* C11: a call with target N*(N-1)/2 on an edge-less graph over the N keys
\* returns, without error, the complete graph on the keys: every unordered
\* pair of distinct keys is an edge, and nothing else is.
C11_CompleteGraph ==
    (Terminal /\ G0.edges = {} /\ Range(G0.nodes) = KeySet /\ n_edges = NPairs) =>
        /\ pc = "returned"
        /\ exception = "None"
        /\ Range(G.nodes) = KeySet
        /\ G.edges = {{p[1], p[2]} : p \in KeyPairs}

\* C11 witness: the call over three keys with target 3 has returned with
\* three edges.
C11_Witness ==
    /\ pc = "returned"
    /\ G0.edges = {}
    /\ Len(G0.nodes) = 3
    /\ n_edges = 3
    /\ NPairs = 3
    /\ Cardinality(G.edges) = 3

\* C12: in the scenario (nodes 1..4 at (0,0), (1,0), (0,1), (10,10)) a call
\* with target 2 on an edge-less graph returns, in every iteration order of
\* the mapping, with exactly the edges {1, 2} and {1, 3}, both of distance 1;
\* no edge touches node 4.
C12_ScenarioEdges ==
    (Terminal /\ n_edges = 2 /\ G0.edges = {}) =>
        /\ pc = "returned"
        /\ G.edges = {{1, 2}, {1, 3}}
        /\ Produced(inserted) = {{1, 2}, {1, 3}}
        /\ \A e \in G.edges : 4 \notin e
        /\ \A a \in 1..Len(inserted) :
              /\ SqDist(inserted[a][1], inserted[a][2]) = 1
              /\ InsertedDistance(inserted, a) = Scale

\* C12 witness: the call with target 2 has returned for the mapping whose
\* iteration order is 4, 3, 2, 1.
C12_Witness ==
    /\ pc = "returned"
    /\ n_edges = 2
    /\ G0.edges = {}
    /\ Keys(pos_dict) = <<4, 3, 2, 1>>
    /\ Lookup(pos_dict, 4) = <<10, 10>>
    /\ Len(inserted) = 2

\* C13 as stated: a call leaves the mapping as it is, removes no edge of the
\* graph, and neither adds a node to the graph's node set nor removes one.
C13_NodeSetUntouched ==
    [][/\ pos_dict' = pos_dict
       /\ G.edges \subseteq G'.edges
       /\ Range(G'.nodes) = Range(G.nodes)]_vars

\* C13 as amended: a call leaves the mapping as it is, removes no edge and no
\* node of the graph and keeps the order of its nodes; a node is added only
\* when it is a key of the mapping that is not yet a node of the graph, so
\* the node set stays as it is when every key is a node already.
C13_InsertsEdgesAndMissingNodes ==
    [][/\ pos_dict' = pos_dict
       /\ G.edges \subseteq G'.edges
       /\ Len(G.nodes) <= Len(G'.nodes)
       /\ SubSeq(G'.nodes, 1, Len(G.nodes)) = G.nodes
       /\ (Range(G'.nodes) \ Range(G.nodes)) \subseteq (KeySet \ Range(G.nodes))
       /\ (KeySet \subseteq Range(G.nodes) => G'.nodes = G.nodes)]_vars

\* C13 witness: a call on a graph without nodes has returned with three
\* nodes in the graph.
C13_Witness ==
    /\ pc = "returned"
    /\ G0.nodes = <<>>
    /\ Len(G.nodes) = 3

\* C15: after the sort the list is ascending by distance, pairs of equal
\* distance stand in the order in which the pairs were enumerated from the
\* keys, ordered_pairs follows the list, and the edges are inserted in that
\* order.
C15_StableAscendingSort ==
    (pc \in {"loop", "returned", "raised"}) =>
        /\ \A a, b \in 1..Len(distance_list) :
              a < b =>
                  /\ distance_list[a][1] <= distance_list[b][1]
                  /\ distance_list[a][1] = distance_list[b][1] =>
                         EnumeratedBefore(distance_list[a][2], distance_list[a][3],
                                          distance_list[b][2], distance_list[b][3])
        /\ Len(ordered_pairs) = Len(distance_list)
        /\ \A a \in 1..Len(distance_list) :
              ordered_pairs[a] = <<distance_list[a][2], distance_list[a][3]>>
        /\ Len(inserted) <= Len(ordered_pairs)
        /\ inserted = SubSeq(ordered_pairs, 1, Len(inserted))

\* C15 witness: a call has inserted three pairs, the last two of equal
\* distance, and the list it was sorted from was not in ascending order.
C15_Witness ==
    /\ pc = "returned"
    /\ Len(inserted) = 3
    /\ InsertedDistance(inserted, 2) = InsertedDistance(inserted, 3)
    /\ Distance(pos_dict, nodes[1], nodes[2]) > InsertedDistance(inserted, 1)

\* C16: the candidate list built before the sort has N*(N-1)/2 entries, no
\* entry joins a key to itself, and every unordered pair of distinct keys is
\* in it exactly once (so never in both orientations); each distance is the
\* same in both directions and not negative.
C16_CandidatesComplete ==
    (pc = "sort") =>
        /\ Len(distance_list) = NPairs
        /\ \A j \in 1..Len(distance_list) :
              /\ distance_list[j][2] # distance_list[j][3]
              /\ {distance_list[j][2], distance_list[j][3]} \subseteq KeySet
              /\ distance_list[j][1] >= 0
              /\ distance_list[j][1]
                     = Distance(pos_dict, distance_list[j][3], distance_list[j][2])
        /\ \A p \in KeyPairs :
              Cardinality({j \in 1..Len(distance_list) :
                  {distance_list[j][2], distance_list[j][3]} = {p[1], p[2]}}) = 1

\* C16 witness: the candidate list of three keys has been built.
C16_Witness ==
    /\ pc = "sort"
    /\ Len(pos_dict) = 3
    /\ Len(distance_list) = 3

\* C17: after a call on an edge-less graph with a target within the pair
\* count, every pair of distinct keys that is strictly closer than a
\* produced edge is a produced edge too.
C17_ThresholdClosure ==
    (pc = "returned" /\ G0.edges = {} /\ n_edges <= NPairs) =>
        \A a \in 1..Len(inserted) :
            \A p \in KeyPairs :
                SqDist(p[1], p[2]) < SqDist(inserted[a][1], inserted[a][2]) =>
                    {p[1], p[2]} \in G.edges

\* C17 witness: a call has returned with two of three pairs produced, the
\* second strictly longer than the first and the pair left out longer still.
C17_Witness ==
    /\ pc = "returned"
    /\ G0.edges = {}
    /\ Len(pos_dict) = 3
    /\ n_edges = 2
    /\ Len(inserted) = 2
    /\ SqDist(inserted[1][1], inserted[1][2]) < SqDist(inserted[2][1], inserted[2][2])
    /\ \E p \in KeyPairs :
          /\ {p[1], p[2]} \notin G.edges
          /\ SqDist(p[1], p[2]) > SqDist(inserted[2][1], inserted[2][2])

\* C19: in the reference workflow the loop index never goes past the end of
\* ordered_pairs (the call does not end in IndexError) when G has no
\* self-loop and every node of G is a key of pos_dict.
C19_WorkflowIndexInRange ==
    ((\A e \in G_orig.edges : Cardinality(e) = 2) /\ Range(G_orig.nodes) \subseteq KeySet) =>
        /\ pc # "raised"
        /\ n_edges <= NPairs
        /\ (pc = "loop" /\ i < n_edges => i + 1 <= Len(ordered_pairs))

\* C19 witness: G is the complete graph on three nodes, all of them keys, and
\* the call has returned after using the last index of ordered_pairs.
C19_Witness ==
    /\ pc = "returned"
    /\ Len(G_orig.nodes) = 3
    /\ Len(pos_dict) = 3
    /\ n_edges = 3
    /\ i = Len(ordered_pairs)
    /\ \A e \in G_orig.edges : Cardinality(e) = 2

\* C19, second part: with a self-loop in G (every node a key), the index goes
\* out of range in some run. Its negation is an invariant that fails.
C19_SelfLoopReachesIndexError ==
    /\ pc = "raised"
    /\ exception = "IndexError"
    /\ Range(G_orig.nodes) = KeySet
    /\ \E e \in G_orig.edges : Cardinality(e) = 1

\* C19, second part: with fewer position keys than nodes (and no self-loop),
\* the index goes out of range in some run.
C19_FewerKeysReachIndexError ==
    /\ pc = "raised"
    /\ exception = "IndexError"
    /\ Len(pos_dict) < Len(G_orig.nodes)
    /\ \A e \in G_orig.edges : Cardinality(e) = 2

\* C20: when the call has ended, set(G.edges()) == set(G_testing.edges()) is
\* true exactly when G and G_testing have the same undirected edges, and an
\* edge of both graphs is reported with the same orientation in both.
C20_EdgeCheckIffSameEdges ==
    Terminal =>
        /\ EdgeSetsEqual(G_orig, G) <=> (G_orig.edges = G.edges)
        /\ \A uv \in EdgesView(G) :
              {uv[1], uv[2]} \in G_orig.edges => uv \in EdgesView(G_orig)

\* C20 witness: the reconstruction has the edges of G, at least two, the
\* check is true, and one edge was handed to add_edge with its endpoints in
\* the order opposite to the one G.edges() reports.
C20_Witness ==
    /\ pc = "returned"
    /\ G_orig.edges = G.edges
    /\ Cardinality(G.edges) >= 2
    /\ EdgeSetsEqual(G_orig, G)
    /\ \E a \in 1..Len(inserted) : inserted[a] \notin EdgesView(G)

\* C14: the graph load_network returns has no edge from a node to itself and
\* integer node labels, whatever the file holds.
C14_LoadedGraphSimple ==
    lpc = "returned" =>
        /\ \A e \in L.edges : Cardinality(e) = 2
        /\ \A k \in 1..Len(L.nodes) : L.nodes[k].type = "int"


\* C18: whatever the order in which the tasks finish, the list the Parallel
\* call returns holds at place k the value of the function on the k-th
\* network, the zip pairs the k-th name with the top nodes of the k-th
\* network, and every task works on the network of its own place.
C18_ResultsInInputOrder ==
    /\ \A k \in 1..Len(task_state) :
          task_state[k].status /= "pending" => task_state[k].arg = networks[k][2]
    /\ ppc \in {"returned", "zipped"} =>
          /\ Len(results) = Len(networks)
          /\ \A k \in 1..Len(networks) :
                results[k] = Apply(par_func, networks[k][2])
    /\ ppc = "zipped" =>
          /\ Len(top_nodes_per_network) = Len(networks)
          /\ \A k \in 1..Len(networks) :
                top_nodes_per_network[k] =
                    <<networks[k][1],
                      get_top_central_nodes(calculate_centralities(networks[k][2]))>>

\* C18 witness: the zip has run, a later task finished before an earlier one,
\* and the two networks have different top nodes.
C18_Witness ==
    /\ ppc = "zipped"
    /\ \E a, b \in 1..Len(completed) :
          /\ a < b
          /\ completed[a] > completed[b]
          /\ top_nodes_per_network[completed[a]][2]
                 /= top_nodes_per_network[completed[b]][2]


\* All pairwise distances between distinct keys of the mapping are different.
AllDistancesDifferent ==
    \A p, q \in KeyPairs :
        p /= q => Distance(pos_dict, p[1], p[2]) /= Distance(pos_dict, q[1], q[2])

\* C21: when all pairwise distances between distinct nodes are different, two
\* calls with the same coordinates, target and starting graph, the keys in
\* any two iteration orders, leave the same edge set.
C21_OrderIndependentWithoutTies ==
    (Terminal /\ prev.done /\ AllDistancesDifferent) => G.edges = prev.G.edges

\* C21 witness: all distances differ, the two calls had different iteration
\* orders, both returned, and some but not all pairs became edges.
C21_Witness ==
    /\ pc = "returned"
    /\ prev.done
    /\ prev.pc = "returned"
    /\ AllDistancesDifferent
    /\ prev.pos_dict /= pos_dict
    /\ Len(inserted) >= 1
    /\ Len(inserted) < NPairs
    /\ inserted /= prev.inserted

\* C21, second part: with two pairs of equal distance at the cut-off, two
\* iteration orders leave different edge sets in some run.
C21_TieGivesDifferentEdges ==
    /\ pc = "returned"
    /\ prev.done
    /\ prev.pc = "returned"
    /\ G.edges /= prev.G.edges
    /\ \E e1 \in G.edges \ prev.G.edges, e2 \in prev.G.edges \ G.edges :
          \E u1, v1, u2, v2 \in KeySet :
              /\ e1 = {u1, v1}
              /\ e2 = {u2, v2}
              /\ Distance(pos_dict, u1, v1) = Distance(pos_dict, u2, v2)


\* C22: every call of the hand-written load_network ends: from the header
\* scan the loader gets to 'return G', whatever the file holds.
C22_HeaderScanTerminates == (lpc = "header") ~> (lpc = "returned")


\* Two edge lines of the file join the same two vertices.
FileHasParallelEdges ==
    \E j, k \in 1..Len(net_file) :
        /\ j < k
        /\ net_file[j].kind = "edge"
        /\ net_file[k].kind = "edge"
        /\ {net_file[j].a, net_file[j].b} = {net_file[k].a, net_file[k].b}

\* C23: the 'multi_edges' entry calculate_network_descriptors computes for a
\* graph load_network returned is 0, whatever parallel edges the file holds.
C23_MultiEdgesAlwaysZero ==
    (lpc = "described" /\ "multi_edges" \in DOMAIN descriptor) =>
        descriptor.multi_edges = 0

\* C23 witness: the file holds the same edge on two lines, the descriptors of
\* the loaded graph were computed, and the graph has that edge once.
C23_Witness ==
    /\ lpc = "described"
    /\ FileHasParallelEdges
    /\ "multi_edges" \in DOMAIN descriptor
    /\ descriptor.edges >= 1
    /\ descriptor.multi_edges = 0


=============================================================================
